---------------------------- MODULE Spec2Model ----------------------------
(***************************************************************************)
(* Model of schedule.py: the feed-record-to-VEVENT mapper                   *)
(* (create_or_update_ical_event), its helpers, and the merge driver (main). *)
(*                                                                          *)
(* Representation.                                                          *)
(*   - A Python dict (a feed record, a component's properties) is a         *)
(*     function whose DOMAIN is the set of keys that are present, so        *)
(*     d["k"] raises KeyError exactly when "k" \notin DOMAIN d.             *)
(*   - A timestamp string of the feed is carried by its parts: the          *)
(*     well-formed ISO-8601 UTC string "YYYY-MM-DDTHH:MM:SSZ" is            *)
(*     [date |-> <<Y, M, D>>, time |-> <<h, m, s>>, zone |-> "Z"]; EmptyStr *)
(*     is "" and BadStr is a string that datetime.fromisoformat rejects.    *)
(*     The feed's timestamps are UTC strings, as parse_utc_string and       *)
(*     dt_to_utc_ical_string document.                                      *)
(*   - A datetime is [y, mo, d, h, mi, s, tzinfo]; a date is [y, mo, d].    *)
(*   - An icalendar component is [name, props, subcomponents].              *)
(*   - The persisted document is represented by the component tree that     *)
(*     Calendar.to_ical writes and Calendar.from_ical reads back.           *)
(***************************************************************************)
EXTENDS Integers, Sequences, FiniteSets, TLC

VARIABLES
    file,             \* persisted document ICS_FILENAME (NoFile when absent)
    feed,             \* the document FEED_URL currently serves (its "events")
    pc,               \* position of main: start, fetch, merge, done, aborted
    cal,              \* main's cal
    existing_events,  \* main's existing_events: UID -> position in cal
    all_events,       \* main's all_events
    idx,              \* position of the for loop over all_events
    fileAtStart,      \* history: the document when the run started
    writes,           \* history: writes of the document in this run
    runs,             \* number of the current invocation of main
    fresh,            \* history: file was saved by a run on the current feed
    startedFresh,     \* history: value of fresh when the run started
    arg,              \* harness: argument of the function under call
    ret,              \* harness: value it returned
    call              \* harness: pending / returned / none

vars == <<file, feed, pc, cal, existing_events, all_events, idx, fileAtStart,
          writes, runs, fresh, startedFresh, arg, ret, call>>

syncVars == <<file, feed, pc, cal, existing_events, all_events, idx,
              fileAtStart, writes, runs, fresh, startedFresh>>

harnessVars == <<arg, ret, call>>

---------------------------------------------------------------------------
(* Bounds of the model *)

MaxFeedLen == 2

MaxRuns == 3

---------------------------------------------------------------------------
(* Python values *)

\* None, as returned by dict.get for an absent key
NoneVal == [none |-> TRUE]

\* the empty string "" where a timestamp string is expected
EmptyStr == [text |-> ""]

\* a string datetime.fromisoformat raises ValueError on
BadStr == [text |-> "not-a-date"]

\* the ISO-8601 UTC string "Y-M-DTh:m:sZ"
T(y, mo, d, h, mi, s) ==
    [date |-> <<y, mo, d>>, time |-> <<h, mi, s>>, zone |-> "Z"]

\* datetime(y, mo, d, h, mi, s, tzinfo=timezone.utc)
DT(y, mo, d, h, mi, s) ==
    [y |-> y, mo |-> mo, d |-> d, h |-> h, mi |-> mi, s |-> s,
     tzinfo |-> "UTC"]

\* truthiness of an optional string (if show_utc_str:)
Truthy(v) == v # NoneVal /\ v # EmptyStr

\* dict.get(k, default)
Get(d, k, default) == IF k \in DOMAIN d THEN d[k] ELSE default

\* d[k] = v on a dict
SetItem(d, k, v) == [x \in (DOMAIN d) \cup {k} |-> IF x = k THEN v ELSE d[x]]

\* f"{n:02d}"
Pad2(n) == IF n < 10 THEN "0" \o ToString(n) ELSE ToString(n)

\* "\n".join(lines)
RECURSIVE JoinLines(_)
JoinLines(lines) ==
    IF Len(lines) = 0 THEN ""
    ELSE IF Len(lines) = 1 THEN lines[1]
    ELSE lines[1] \o "\n" \o JoinLines(Tail(lines))

---------------------------------------------------------------------------
(* datetime / timedelta arithmetic used by the mapper *)

IsLeap(y) == (y % 4 = 0 /\ y % 100 # 0) \/ y % 400 = 0

DaysInMonth(y, mo) ==
    IF mo = 2 THEN (IF IsLeap(y) THEN 29 ELSE 28)
    ELSE IF mo \in {4, 6, 9, 11} THEN 30 ELSE 31

\* datetime.date()
DateOf(dt) == [y |-> dt.y, mo |-> dt.mo, d |-> dt.d]

\* dt + timedelta(days=1)
AddOneDay(dt) ==
    IF dt.d < DaysInMonth(dt.y, dt.mo) THEN [dt EXCEPT !.d = dt.d + 1]
    ELSE IF dt.mo < 12 THEN [dt EXCEPT !.d = 1, !.mo = dt.mo + 1]
    ELSE [dt EXCEPT !.d = 1, !.mo = 1, !.y = dt.y + 1]

\* dt - timedelta(days=1)
SubOneDay(dt) ==
    IF dt.d > 1 THEN [dt EXCEPT !.d = dt.d - 1]
    ELSE IF dt.mo > 1
         THEN [dt EXCEPT !.d = DaysInMonth(dt.y, dt.mo - 1), !.mo = dt.mo - 1]
    ELSE [dt EXCEPT !.d = 31, !.mo = 12, !.y = dt.y - 1]

\* a plausible slip: the minutes wrap around midnight but the date stays
SubMinutes_NoBorrow(dt, n) ==
    LET t == (dt.h * 60 + dt.mi - n + 1440) % 1440
    IN  [dt EXCEPT !.h = t \div 60, !.mi = t % 60]

\* dt - timedelta(minutes=n), for 0 <= n < 1440
SubMinutes(dt, n) ==
    LET t == dt.h * 60 + dt.mi - n
    IN  IF t >= 0 THEN [dt EXCEPT !.h = t \div 60, !.mi = t % 60]
        ELSE [SubOneDay(dt) EXCEPT !.h = (t + 1440) \div 60,
                                   !.mi = (t + 1440) % 60]

---------------------------------------------------------------------------
(* Helpers of schedule.py *)

\* parse_utc_string raises ValueError on a string that is no ISO-8601 string
ParseFails(dt_str) == "date" \notin DOMAIN dt_str

\* parse_utc_string: "Z" is replaced by "+00:00" and the string parsed into
\* an aware datetime
parse_utc_string(dt_str) ==
    [y |-> dt_str.date[1], mo |-> dt_str.date[2], d |-> dt_str.date[3],
     h |-> dt_str.time[1], mi |-> dt_str.time[2], s |-> dt_str.time[3],
     tzinfo |-> IF dt_str.zone = "Z" THEN "UTC" ELSE dt_str.zone]

\* dt_to_utc_ical_string: strftime("%Y%m%dT%H%M%SZ")
dt_to_utc_ical_string(dt_utc) ==
    ToString(dt_utc.y) \o Pad2(dt_utc.mo) \o Pad2(dt_utc.d) \o "T"
        \o Pad2(dt_utc.h) \o Pad2(dt_utc.mi) \o Pad2(dt_utc.s) \o "Z"

\* a plausible slip: the hour 0 is not mapped to 12
format_time_keeps_zero_hour(dt) ==
    ToString(dt.h % 12) \o ":" \o Pad2(dt.mi) \o " "
        \o (IF dt.h < 12 THEN "AM" ELSE "PM")

format_time_no_leading_zero(dt) ==
    LET hour_12 == IF dt.h % 12 = 0 THEN 12 ELSE dt.h % 12
        minute_str == Pad2(dt.mi)
        ampm_str == IF dt.h < 12 THEN "AM" ELSE "PM"
    IN  ToString(hour_12) \o ":" \o minute_str \o " " \o ampm_str

---------------------------------------------------------------------------
(* create_or_update_ical_event *)

\* ical_event=None
NoEvent == [none |-> TRUE]

\* Event(): a VEVENT with no property and no subcomponent
Event == [name |-> "VEVENT", props |-> <<>>, subcomponents |-> <<>>]

\* ical_event[k] = v
SetProp(e, k, v) == [e EXCEPT !.props = SetItem(e.props, k, v)]

\* the mapper's outcome: the exception raised ("none" when it returned) and
\* the event as it stands at that point (mutated so far, in update mode); a
\* step runs unless an earlier one raised
Ok(e) == [err |-> "none", ev |-> e]
Raise(kind, e) == [err |-> kind, ev |-> e]

\* f"{event_id}@thenationalva.com"
UidOf(event_id) == ToString(event_id) \o "@thenationalva.com"

\* 1) UID
StepUID(event_data, e) ==
    IF "eventId" \notin DOMAIN event_data THEN Raise("KeyError", e)
    ELSE Ok(SetProp(e, "UID", UidOf(event_data["eventId"])))

\* the default of event_data.get("modifiedUTC", "2025-01-01T00:00:00Z")
DefaultModified == T(2025, 1, 1, 0, 0, 0)

\* 2) Timestamps: DTSTAMP + LAST-MODIFIED
StepTimestamps(event_data, e) ==
    LET modified_str == Get(event_data, "modifiedUTC", DefaultModified)
    IN  IF ParseFails(modified_str) THEN Raise("ValueError", e)
        ELSE LET dt_modified == parse_utc_string(modified_str)
             IN  Ok(SetProp(SetProp(e, "DTSTAMP", dt_modified),
                            "LAST-MODIFIED", dt_modified))

\* a plausible slip: the day is incremented without rolling the month over
StepAllDay_NoRollover(event_data, e) ==
    LET show_utc_str == Get(event_data, "eventDateTimeUTC", NoneVal)
    IN  IF Truthy(show_utc_str)
        THEN IF ParseFails(show_utc_str) THEN Raise("ValueError", e)
             ELSE LET show_dt_utc == parse_utc_string(show_utc_str)
                      start_date == DateOf(show_dt_utc)
                      end_date == [start_date EXCEPT !.d = start_date.d + 1]
                  IN  Ok(SetProp(SetProp(e, "DTSTART", start_date),
                                 "DTEND", end_date))
        ELSE Ok(SetProp(SetProp(e, "DTSTART", [y |-> 2025, mo |-> 1, d |-> 1]),
                        "DTEND", [y |-> 2025, mo |-> 1, d |-> 2]))

\* 3) All-Day Event
StepAllDay(event_data, e) ==
    LET show_utc_str == Get(event_data, "eventDateTimeUTC", NoneVal)
    IN  IF Truthy(show_utc_str)
        THEN IF ParseFails(show_utc_str) THEN Raise("ValueError", e)
             ELSE LET show_dt_utc == parse_utc_string(show_utc_str)
                      start_date == DateOf(show_dt_utc)
                      end_date == DateOf(AddOneDay(show_dt_utc))
                  IN  Ok(SetProp(SetProp(e, "DTSTART", start_date),
                                 "DTEND", end_date))
        ELSE Ok(SetProp(SetProp(e, "DTSTART", [y |-> 2025, mo |-> 1, d |-> 1]),
                        "DTEND", [y |-> 2025, mo |-> 1, d |-> 2]))

\* a plausible slip: the title is written only when the event has none yet
StepSummary_KeepsOld(event_data, e) ==
    IF "title" \notin DOMAIN event_data
       \/ "eventTitleText" \notin DOMAIN event_data["title"]
    THEN Raise("KeyError", e)
    ELSE IF "SUMMARY" \in DOMAIN e.props THEN Ok(e)
    ELSE Ok(SetProp(e, "SUMMARY", event_data["title"]["eventTitleText"]))

\* 4) SUMMARY (Title)
StepSummary(event_data, e) ==
    IF "title" \notin DOMAIN event_data
       \/ "eventTitleText" \notin DOMAIN event_data["title"]
    THEN Raise("KeyError", e)
    ELSE Ok(SetProp(e, "SUMMARY", event_data["title"]["eventTitleText"]))

\* 5) LOCATION (Venue)
StepLocation(event_data, e) ==
    IF "venue" \notin DOMAIN event_data
       \/ "title" \notin DOMAIN event_data["venue"]
       \/ "address_line" \notin DOMAIN event_data["venue"]
    THEN Raise("KeyError", e)
    ELSE LET venue_title == event_data["venue"]["title"]
             venue_address == event_data["venue"]["address_line"]
         IN  Ok(SetProp(e, "LOCATION", venue_title \o ", " \o venue_address))

\* event_data.get("associations", {}).get("headliners", [])
Headliners(event_data) ==
    Get(Get(event_data, "associations", <<>>), "headliners", <<>>)

\* a plausible slip: the age flag is read the wrong way round
DescLines_AgeInverted(event_data) ==
    LET door_utc_str == Get(event_data, "doorDateTimeUTC", NoneVal)
        show_utc_str == Get(event_data, "eventDateTimeUTC", NoneVal)
        headliners == Headliners(event_data)
        doors == IF Truthy(door_utc_str)
                 THEN << "Doors: "
                         \o format_time_no_leading_zero(
                                parse_utc_string(door_utc_str))
                         \o " UTC" >>
                 ELSE <<>>
        show == IF Truthy(show_utc_str)
                THEN << "Show: "
                        \o format_time_no_leading_zero(
                               parse_utc_string(show_utc_str))
                        \o " UTC" >>
                ELSE <<>>
        age == IF Len(headliners) > 0
               THEN LET hl == headliners[1]
                        under21 == Get(hl, "under21", FALSE)
                        minor_cat == Get(hl, "minorCategoryText",
                                         "Unknown Genre")
                        age_str == IF under21 THEN "All Ages" ELSE "21+ Only"
                    IN  << "Age: " \o age_str, "Genre: " \o minor_cat >>
               ELSE <<>>
    IN  doors \o show \o age

\* desc_lines, built in the order of the code
DescLines(event_data) ==
    LET door_utc_str == Get(event_data, "doorDateTimeUTC", NoneVal)
        show_utc_str == Get(event_data, "eventDateTimeUTC", NoneVal)
        headliners == Headliners(event_data)
        doors == IF Truthy(door_utc_str)
                 THEN << "Doors: "
                         \o format_time_no_leading_zero(
                                parse_utc_string(door_utc_str))
                         \o " UTC" >>
                 ELSE <<>>
        show == IF Truthy(show_utc_str)
                THEN << "Show: "
                        \o format_time_no_leading_zero(
                               parse_utc_string(show_utc_str))
                        \o " UTC" >>
                ELSE <<>>
        age == IF Len(headliners) > 0
               THEN LET hl == headliners[1]
                        under21 == Get(hl, "under21", FALSE)
                        minor_cat == Get(hl, "minorCategoryText",
                                         "Unknown Genre")
                        age_str == IF under21 THEN "21+ Only" ELSE "All Ages"
                    IN  << "Age: " \o age_str, "Genre: " \o minor_cat >>
               ELSE <<>>
    IN  doors \o show \o age

\* a plausible slip: the door time is read as a mandatory field
StepDescription_RequiresDoor(event_data, e) ==
    IF "doorDateTimeUTC" \notin DOMAIN event_data THEN Raise("KeyError", e)
    ELSE IF ParseFails(event_data["doorDateTimeUTC"])
    THEN Raise("ValueError", e)
    ELSE Ok(SetProp(e, "DESCRIPTION", JoinLines(DescLines(event_data))))

\* 6) Build DESCRIPTION Lines
StepDescription(event_data, e) ==
    LET door_utc_str == Get(event_data, "doorDateTimeUTC", NoneVal)
    IN  IF Truthy(door_utc_str) /\ ParseFails(door_utc_str)
        THEN Raise("ValueError", e)
        ELSE Ok(SetProp(e, "DESCRIPTION", JoinLines(DescLines(event_data))))

\* 7) URL => Ticket Link
StepURL(event_data, e) ==
    IF "ticketing" \notin DOMAIN event_data
       \/ "url" \notin DOMAIN event_data["ticketing"]
    THEN Raise("KeyError", e)
    ELSE Ok(SetProp(e, "URL", event_data["ticketing"]["url"]))

\* Alarm() with ACTION, DESCRIPTION and TRIGGER;VALUE=DATE-TIME added
Alarm(description, trigger) ==
    [name |-> "VALARM",
     props |-> ("ACTION" :> "DISPLAY") @@ ("DESCRIPTION" :> description)
               @@ ("TRIGGER;VALUE=DATE-TIME" :> trigger),
     subcomponents |-> <<>>]

\* the loop that removes every VALARM subcomponent
RECURSIVE WithoutAlarms(_)
WithoutAlarms(subs) ==
    IF Len(subs) = 0 THEN <<>>
    ELSE IF Head(subs).name = "VALARM" THEN WithoutAlarms(Tail(subs))
    ELSE <<Head(subs)>> \o WithoutAlarms(Tail(subs))

\* the alarms appended for a record: doors first, then show
NewAlarms(event_data) ==
    LET door_utc_str == Get(event_data, "doorDateTimeUTC", NoneVal)
        show_utc_str == Get(event_data, "eventDateTimeUTC", NoneVal)
        doors == IF Truthy(door_utc_str)
                 THEN << Alarm("30 Minutes to Doors",
                               dt_to_utc_ical_string(
                                   SubMinutes(parse_utc_string(door_utc_str),
                                              30))) >>
                 ELSE <<>>
        show == IF Truthy(show_utc_str)
                THEN << Alarm("15 Minutes to Show",
                              dt_to_utc_ical_string(
                                  SubMinutes(parse_utc_string(show_utc_str),
                                             15))) >>
                ELSE <<>>
    IN  doors \o show

\* a plausible slip: the old alarms are not removed before the new are added
StepAlarms_KeepsOld(event_data, e) ==
    Ok([e EXCEPT !.subcomponents = e.subcomponents \o NewAlarms(event_data)])

\* 8) ALARMS
StepAlarms(event_data, e) ==
    Ok([e EXCEPT !.subcomponents =
                     WithoutAlarms(e.subcomponents) \o NewAlarms(event_data)])

\* section n of the mapper's body
RunStep(n, event_data, e) ==
    CASE n = 1 -> StepUID(event_data, e)
      [] n = 2 -> StepTimestamps(event_data, e)
      [] n = 3 -> StepAllDay(event_data, e)
      [] n = 4 -> StepSummary(event_data, e)
      [] n = 5 -> StepLocation(event_data, e)
      [] n = 6 -> StepDescription(event_data, e)
      [] n = 7 -> StepURL(event_data, e)
      [] n = 8 -> StepAlarms(event_data, e)

\* the sections from n on, in order, until one raises
RECURSIVE RunSteps(_, _, _)
RunSteps(n, event_data, r) ==
    IF r.err # "none" \/ n > 8 THEN r
    ELSE RunSteps(n + 1, event_data, RunStep(n, event_data, r.ev))

create_or_update_ical_event(event_data, ical_event) ==
    RunSteps(1, event_data,
             Ok(IF ical_event = NoEvent THEN Event ELSE ical_event))

---------------------------------------------------------------------------
(* Inputs: feed records and stored events *)

\* a dict from a choice of optional keys: <<>> leaves the key out, <<v>>
\* gives it the value v
Rec(c) == [k \in {x \in DOMAIN c : Len(c[x]) > 0} |-> c[k][1]]

ShowTimes ==
    { T(2025, 1, 31, 20, 0, 0), T(2025, 1, 31, 0, 5, 0),
      T(2024, 12, 31, 23, 59, 30), T(2024, 2, 28, 12, 0, 0),
      T(2025, 2, 28, 13, 30, 0), T(2025, 1, 1, 0, 10, 0) }

DoorTimes ==
    { T(2025, 1, 31, 19, 0, 0), T(2025, 3, 1, 0, 15, 0),
      T(2024, 3, 1, 0, 0, 0), T(2025, 1, 1, 0, 29, 59) }

Venue == [title |-> "The National", address_line |-> "708 E Broad St"]

HeadlinerLists ==
    { <<>>,
      << [under21 |-> TRUE, minorCategoryText |-> "Rock"] >>,
      << [under21 |-> FALSE] >>,
      << [minorCategoryText |-> "Jazz"],
         [under21 |-> TRUE, minorCategoryText |-> "Rock"] >> }

\* the records the mapper is called on
MapperRecords ==
    { Rec(c) : c \in
        [ eventId : { <<>>, <<7>> },
          modifiedUTC : { <<>>, <<T(2025, 1, 20, 9, 30, 0)>> },
          eventDateTimeUTC :
              { <<>>, <<EmptyStr>>, <<BadStr>> } \cup { <<t>> : t \in ShowTimes },
          doorDateTimeUTC :
              { <<>>, <<EmptyStr>>, <<BadStr>> } \cup { <<t>> : t \in DoorTimes },
          title : { <<>>, << [supportingText |-> "Foo"] >>,
                    << [eventTitleText |-> "Alpha"] >>,
                    << [eventTitleText |-> "Alpha",
                        supportingText |-> "Foo"] >> },
          venue : { << [title |-> "The National"] >>, <<Venue>> },
          associations :
              { <<>> } \cup { << [headliners |-> h] >> : h \in HeadlinerLists },
          ticketing : { <<>>, << [url |-> "https://tickets.example/7"] >> } ] }

\* an event written by an earlier version of the feed: every property the
\* mapper owns has another value, it carries a property the mapper does not
\* know, and three alarms
StaleEvent(uid) ==
    [name |-> "VEVENT",
     props |-> ("UID" :> uid)
               @@ ("DTSTAMP" :> DT(2024, 6, 1, 8, 0, 0))
               @@ ("LAST-MODIFIED" :> DT(2024, 6, 1, 8, 0, 0))
               @@ ("DTSTART" :> [y |-> 2024, mo |-> 6, d |-> 30])
               @@ ("DTEND" :> [y |-> 2024, mo |-> 7, d |-> 1])
               @@ ("SUMMARY" :> "Old Title")
               @@ ("LOCATION" :> "Old Hall, 1 Old St")
               @@ ("DESCRIPTION" :> "Doors: 6:00 PM UTC\nShow: 7:00 PM UTC")
               @@ ("URL" :> "https://tickets.example/old")
               @@ ("X-NOTE" :> "kept"),
     subcomponents |-> << Alarm("30 Minutes to Doors", "20240630T173000Z"),
                          Alarm("15 Minutes to Show", "20240630T184500Z"),
                          Alarm("15 Minutes to Show", "20240630T184500Z") >>]

\* the events the mapper is called on in update mode
ExistingEvents ==
    { StaleEvent(UidOf(7)),
      [Event EXCEPT !.props = ("UID" :> UidOf(7))] }

---------------------------------------------------------------------------
(* Harness: one call of a pure function on an input drawn from a set *)

SyncIdle ==
    /\ file = [none |-> TRUE]
    /\ feed = <<>>
    /\ pc = "off"
    /\ cal = [none |-> TRUE]
    /\ existing_events = <<>>
    /\ all_events = <<>>
    /\ idx = 1
    /\ fileAtStart = [none |-> TRUE]
    /\ writes = 0
    /\ runs = 0
    /\ fresh = FALSE
    /\ startedFresh = FALSE

InitFmt ==
    /\ SyncIdle
    /\ arg \in { DT(2025, 1, 31, h, mi, 0) : h \in 0..23, mi \in 0..59 }
    /\ ret = NoneVal
    /\ call = "pending"

CallFormat ==
    /\ call = "pending"
    /\ ret' = format_time_no_leading_zero(arg)
    /\ call' = "returned"
    /\ UNCHANGED <<arg, syncVars>>

NextFmt == CallFormat

SpecFmt == InitFmt /\ [][NextFmt]_vars

InitMap ==
    /\ SyncIdle
    /\ arg \in [event_data : MapperRecords,
                ical_event : {NoEvent} \cup ExistingEvents]
    /\ ret = NoneVal
    /\ call = "pending"

CallMapper ==
    /\ call = "pending"
    /\ ret' = create_or_update_ical_event(arg.event_data, arg.ical_event)
    /\ call' = "returned"
    /\ UNCHANGED <<arg, syncVars>>

NextMap == CallMapper

SpecMap == InitMap /\ [][NextMap]_vars

---------------------------------------------------------------------------
(* main: the merge driver *)

\* os.path.exists(ICS_FILENAME) is false
NoFile == [none |-> TRUE]

\* Calendar() with prodid and version added
NewCalendar ==
    [name |-> "VCALENDAR",
     props |-> ("PRODID" :> "-//TheNationalVA//ConcertSchedule//EN")
               @@ ("VERSION" :> "2.0"),
     subcomponents |-> <<>>]

\* str(component.get("UID"))
StrUid(component) == Get(component.props, "UID", "None")

\* existing_events: each UID mapped to the last VEVENT that carries it
BuildIndex(c) ==
    LET subs == c.subcomponents
        at(u) == {k \in 1..Len(subs) :
                     subs[k].name = "VEVENT" /\ StrUid(subs[k]) = u}
        uids == {StrUid(subs[k]) :
                     k \in {j \in 1..Len(subs) : subs[j].name = "VEVENT"}}
    IN  [u \in uids |-> CHOOSE k \in at(u) : \A j \in at(u) : j <= k]

\* a plausible slip: a created event is not entered into existing_events
MergeOne_NoIndexUpdate(c, existing, evt_data) ==
    IF "eventId" \notin DOMAIN evt_data
    THEN [cal |-> c, existing |-> existing, err |-> "KeyError"]
    ELSE LET uid_value == UidOf(evt_data["eventId"])
         IN  IF uid_value \in DOMAIN existing
             THEN LET r == create_or_update_ical_event(
                               evt_data, c.subcomponents[existing[uid_value]])
                  IN  [cal |-> [c EXCEPT
                                  !.subcomponents[existing[uid_value]] = r.ev],
                       existing |-> existing, err |-> r.err]
             ELSE LET r == create_or_update_ical_event(evt_data, NoEvent)
                  IN  IF r.err # "none"
                      THEN [cal |-> c, existing |-> existing, err |-> r.err]
                      ELSE [cal |-> [c EXCEPT !.subcomponents =
                                        Append(c.subcomponents, r.ev)],
                            existing |-> existing, err |-> "none"]

\* a plausible slip: the calendar is rebuilt from the feed, so a created event
\* replaces the events that were loaded
MergeOne_DropsLoaded(c, existing, evt_data) ==
    IF "eventId" \notin DOMAIN evt_data
    THEN [cal |-> c, existing |-> existing, err |-> "KeyError"]
    ELSE LET uid_value == UidOf(evt_data["eventId"])
         IN  IF uid_value \in DOMAIN existing
             THEN LET r == create_or_update_ical_event(
                               evt_data, c.subcomponents[existing[uid_value]])
                  IN  [cal |-> [c EXCEPT
                                  !.subcomponents[existing[uid_value]] = r.ev],
                       existing |-> existing, err |-> r.err]
             ELSE LET r == create_or_update_ical_event(evt_data, NoEvent)
                  IN  IF r.err # "none"
                      THEN [cal |-> c, existing |-> existing, err |-> r.err]
                      ELSE [cal |-> [c EXCEPT !.subcomponents = <<r.ev>>],
                            existing |-> (uid_value :> 1), err |-> "none"]

\* a plausible slip: a record that raises is skipped and the run goes on
MergeOne_SkipsBadRecord(c, existing, evt_data) ==
    IF "eventId" \notin DOMAIN evt_data
    THEN [cal |-> c, existing |-> existing, err |-> "none"]
    ELSE LET uid_value == UidOf(evt_data["eventId"])
         IN  IF uid_value \in DOMAIN existing
             THEN LET r == create_or_update_ical_event(
                               evt_data, c.subcomponents[existing[uid_value]])
                  IN  [cal |-> [c EXCEPT
                                  !.subcomponents[existing[uid_value]] = r.ev],
                       existing |-> existing, err |-> "none"]
             ELSE LET r == create_or_update_ical_event(evt_data, NoEvent)
                  IN  IF r.err # "none"
                      THEN [cal |-> c, existing |-> existing, err |-> "none"]
                      ELSE [cal |-> [c EXCEPT !.subcomponents =
                                        Append(c.subcomponents, r.ev)],
                            existing |-> SetItem(existing, uid_value,
                                                 Len(c.subcomponents) + 1),
                            err |-> "none"]

\* one pass of the loop "for evt_data in all_events": the calendar and the
\* index after it, and the exception it raised ("none" when it did not)
MergeOne(c, existing, evt_data) ==
    IF "eventId" \notin DOMAIN evt_data
    THEN [cal |-> c, existing |-> existing, err |-> "KeyError"]
    ELSE LET uid_value == UidOf(evt_data["eventId"])
         IN  IF uid_value \in DOMAIN existing
             THEN LET r == create_or_update_ical_event(
                               evt_data, c.subcomponents[existing[uid_value]])
                  IN  [cal |-> [c EXCEPT
                                  !.subcomponents[existing[uid_value]] = r.ev],
                       existing |-> existing, err |-> r.err]
             ELSE LET r == create_or_update_ical_event(evt_data, NoEvent)
                  IN  IF r.err # "none"
                      THEN [cal |-> c, existing |-> existing, err |-> r.err]
                      ELSE [cal |-> [c EXCEPT !.subcomponents =
                                        Append(c.subcomponents, r.ev)],
                            existing |-> SetItem(existing, uid_value,
                                                 Len(c.subcomponents) + 1),
                            err |-> "none"]

\* the records the feed serves in the runs of main
RecordA ==
    Rec([ eventId |-> <<1>>,
          modifiedUTC |-> <<T(2025, 1, 20, 9, 30, 0)>>,
          eventDateTimeUTC |-> <<T(2025, 1, 31, 20, 0, 0)>>,
          doorDateTimeUTC |-> <<T(2025, 1, 31, 19, 0, 0)>>,
          title |-> << [eventTitleText |-> "Alpha", supportingText |-> "Foo"] >>,
          venue |-> <<Venue>>,
          associations |-> << [headliners |->
              << [under21 |-> TRUE, minorCategoryText |-> "Rock"] >>] >>,
          ticketing |-> << [url |-> "https://tickets.example/1"] >> ])

RecordB ==
    Rec([ eventId |-> <<1>>,
          modifiedUTC |-> <<>>,
          eventDateTimeUTC |-> <<T(2025, 2, 28, 13, 30, 0)>>,
          doorDateTimeUTC |-> <<>>,
          title |-> << [eventTitleText |-> "Alpha (moved)"] >>,
          venue |-> <<Venue>>,
          associations |-> <<>>,
          ticketing |-> << [url |-> "https://tickets.example/1"] >> ])

RecordC ==
    Rec([ eventId |-> <<2>>,
          modifiedUTC |-> <<>>,
          eventDateTimeUTC |-> <<>>,
          doorDateTimeUTC |-> <<>>,
          title |-> << [eventTitleText |-> "Beta"] >>,
          venue |-> <<Venue>>,
          associations |-> <<>>,
          ticketing |-> << [url |-> "https://tickets.example/2"] >> ])

RecordNoTicket ==
    Rec([ eventId |-> <<2>>,
          modifiedUTC |-> <<>>,
          eventDateTimeUTC |-> <<T(2025, 1, 1, 0, 10, 0)>>,
          doorDateTimeUTC |-> <<T(2025, 1, 1, 0, 0, 0)>>,
          title |-> << [eventTitleText |-> "Beta (late)"] >>,
          venue |-> <<Venue>>,
          associations |-> <<>>,
          ticketing |-> <<>> ])

RecordNoId ==
    Rec([ eventId |-> <<>>,
          modifiedUTC |-> <<>>,
          eventDateTimeUTC |-> <<T(2025, 1, 31, 20, 0, 0)>>,
          doorDateTimeUTC |-> <<>>,
          title |-> << [eventTitleText |-> "Gamma"] >>,
          venue |-> <<Venue>>,
          associations |-> <<>>,
          ticketing |-> << [url |-> "https://tickets.example/3"] >> ])

SyncRecords == {RecordA, RecordB, RecordC, RecordNoTicket, RecordNoId}

\* data["events"] of the feed: a list of records
Feeds == UNION { [1..n -> SyncRecords] : n \in 0..MaxFeedLen }

\* the document before the first run: absent, or a calendar saved earlier
\* that holds an event no feed names and an event of an older feed version
InitialFiles ==
    { NoFile,
      [NewCalendar EXCEPT !.subcomponents =
          << StaleEvent(UidOf(3)), StaleEvent(UidOf(1)) >>] }

Init ==
    /\ file \in InitialFiles
    /\ feed \in Feeds
    /\ pc = "start"
    /\ cal = NoFile
    /\ existing_events = <<>>
    /\ all_events = <<>>
    /\ idx = 1
    /\ fileAtStart = file
    /\ writes = 0
    /\ runs = 1
    /\ fresh = FALSE
    /\ startedFresh = FALSE
    /\ arg = NoneVal
    /\ ret = NoneVal
    /\ call = "none"

\* the publisher changes the feed between two runs
FeedChanges ==
    /\ pc = "start"
    /\ \E f \in Feeds \ {feed} : feed' = f
    /\ fresh' = FALSE
    /\ UNCHANGED <<file, pc, cal, existing_events, all_events, idx,
                   fileAtStart, writes, runs, startedFresh, harnessVars>>

\* 1) Load existing or create new .ics, and build existing_events
Load ==
    /\ pc = "start"
    /\ cal' = IF file = NoFile THEN NewCalendar ELSE file
    /\ existing_events' = BuildIndex(cal')
    /\ fileAtStart' = file
    /\ startedFresh' = fresh
    /\ writes' = 0
    /\ pc' = "fetch"
    /\ UNCHANGED <<file, feed, all_events, idx, runs, fresh, harnessVars>>

\* 2) fetch_events returns data["events"]
Fetch ==
    /\ pc = "fetch"
    /\ all_events' = feed
    /\ idx' = 1
    /\ pc' = "merge"
    /\ UNCHANGED <<file, feed, cal, existing_events, fileAtStart, writes,
                   runs, fresh, startedFresh, harnessVars>>

\* 2) fetch_events raises: requests.get or raise_for_status fails
FetchFails ==
    /\ pc = "fetch"
    /\ pc' = "aborted"
    /\ UNCHANGED <<file, feed, cal, existing_events, all_events, idx,
                   fileAtStart, writes, runs, fresh, startedFresh, harnessVars>>

\* 3) Add or update: one record of the loop
MergeRecord ==
    /\ pc = "merge"
    /\ idx <= Len(all_events)
    /\ LET m == MergeOne(cal, existing_events, all_events[idx])
       IN  /\ cal' = m.cal
           /\ existing_events' = m.existing
           /\ IF m.err = "none"
              THEN idx' = idx + 1 /\ pc' = "merge"
              ELSE idx' = idx /\ pc' = "aborted"
    /\ UNCHANGED <<file, feed, all_events, fileAtStart, writes, runs, fresh,
                   startedFresh, harnessVars>>

\* 4) Write updated .ics
Save ==
    /\ pc = "merge"
    /\ idx > Len(all_events)
    /\ file' = cal
    /\ writes' = writes + 1
    /\ fresh' = TRUE
    /\ pc' = "done"
    /\ UNCHANGED <<feed, cal, existing_events, all_events, idx, fileAtStart,
                   runs, startedFresh, harnessVars>>

\* the script is invoked again
NewRun ==
    /\ pc \in {"done", "aborted"}
    /\ runs < MaxRuns
    /\ runs' = runs + 1
    /\ pc' = "start"
    /\ cal' = NoFile
    /\ existing_events' = <<>>
    /\ all_events' = <<>>
    /\ idx' = 1
    /\ fileAtStart' = file
    /\ writes' = 0
    /\ startedFresh' = FALSE
    /\ UNCHANGED <<file, feed, fresh, harnessVars>>

Next ==
    \/ FeedChanges
    \/ Load
    \/ Fetch
    \/ FetchFails
    \/ MergeRecord
    \/ Save
    \/ NewRun

Spec == Init /\ [][Next]_vars

---------------------------------------------------------------------------
(* Vocabulary of the properties: texts and dates stated independently of    *)
(* the definitions above                                                    *)

DigitText == <<"0", "1", "2", "3", "4", "5", "6", "7", "8", "9">>

TwoDigits(n) == DigitText[(n \div 10) + 1] \o DigitText[(n % 10) + 1]

FourDigits(n) == TwoDigits(n \div 100) \o TwoDigits(n % 100)

HourText == <<"12", "1", "2", "3", "4", "5", "6", "7", "8", "9", "10", "11">>

\* "H:MM AM|PM" of a time of day
ClockText(h, mi) ==
    HourText[(h % 12) + 1] \o ":" \o TwoDigits(mi) \o " "
        \o (IF h < 12 THEN "AM" ELSE "PM")

\* "YYYYMMDDTHHMMSSZ" of an instant
StampText(t) ==
    FourDigits(t.y) \o TwoDigits(t.mo) \o TwoDigits(t.d) \o "T"
        \o TwoDigits(t.h) \o TwoDigits(t.mi) \o TwoDigits(t.s) \o "Z"

\* the Julian day number of a calendar date
DayNumber(t) ==
    LET a == (14 - t.mo) \div 12
        yy == t.y + 4800 - a
        mm == t.mo + 12 * a - 3
    IN  t.d + (153 * mm + 2) \div 5 + 365 * yy + yy \div 4 - yy \div 100
            + yy \div 400 - 32045

MonthLength == <<31, 28, 31, 30, 31, 30, 31, 31, 30, 31, 30, 31>>

IsCalendarDate(t) ==
    /\ t.mo \in 1..12
    /\ t.d >= 1
    /\ \/ t.d <= MonthLength[t.mo]
       \/ t.mo = 2 /\ t.d = 29
          /\ (t.y % 4 = 0 /\ (t.y % 100 # 0 \/ t.y % 400 = 0))

\* the minutes from instant u to instant t on the time axis
MinutesBetween(u, t) ==
    (DayNumber(t) - DayNumber(u)) * 1440 + (t.h * 60 + t.mi)
        - (u.h * 60 + u.mi)

\* the record has a timestamp under key k
HasTime(event_data, k) ==
    k \in DOMAIN event_data /\ "date" \in DOMAIN event_data[k]

\* the instant that timestamp names, in UTC
Instant(event_data, k) ==
    LET str == event_data[k]
    IN  [y |-> str.date[1], mo |-> str.date[2], d |-> str.date[3],
         h |-> str.time[1], mi |-> str.time[2], s |-> str.time[3]]

\* the record has every mandatory field
HasMandatory(event_data) ==
    /\ "eventId" \in DOMAIN event_data
    /\ "title" \in DOMAIN event_data
    /\ "eventTitleText" \in DOMAIN event_data["title"]
    /\ "venue" \in DOMAIN event_data
    /\ "title" \in DOMAIN event_data["venue"]
    /\ "address_line" \in DOMAIN event_data["venue"]
    /\ "ticketing" \in DOMAIN event_data
    /\ "url" \in DOMAIN event_data["ticketing"]

\* the mapper returned from a call of the harness
Mapped == call = "returned" /\ "err" \in DOMAIN ret /\ ret.err = "none"

---------------------------------------------------------------------------
(* C9 *)

\* C9 Time formatting: for every hour h in 0..23 and minute m in 0..59
\* format_time_no_leading_zero returns "H:MM AM|PM", H = 12 when h mod 12 = 0
\* and h mod 12 otherwise, without a leading zero, MM two digits, AM iff
\* h < 12; (20,0) gives "8:00 PM", (0,5) "12:05 AM", (13,30) "1:30 PM",
\* (12,0) "12:00 PM".
C9_TimeFormatting ==
    call = "returned" =>
        /\ ret = ClockText(arg.h, arg.mi)
        /\ (arg.h = 20 /\ arg.mi = 0 => ret = "8:00 PM")
        /\ (arg.h = 0 /\ arg.mi = 5 => ret = "12:05 AM")
        /\ (arg.h = 13 /\ arg.mi = 30 => ret = "1:30 PM")
        /\ (arg.h = 12 /\ arg.mi = 0 => ret = "12:00 PM")

C9_Witness == call = "returned" /\ arg.h = 0 /\ arg.mi = 5 /\ ret = "12:05 AM"

---------------------------------------------------------------------------
(* C5 *)

\* the description lines as the claim states them
ClaimedLines(event_data) ==
    LET hs == Headliners(event_data)
    IN  (IF HasTime(event_data, "doorDateTimeUTC")
         THEN << "Doors: " \o ClockText(Instant(event_data, "doorDateTimeUTC").h,
                                        Instant(event_data, "doorDateTimeUTC").mi) >>
         ELSE <<>>)
        \o << "Show: " \o ClockText(Instant(event_data, "eventDateTimeUTC").h,
                                    Instant(event_data, "eventDateTimeUTC").mi) >>
        \o (IF "supportingText" \in DOMAIN event_data["title"]
            THEN << "Support: " \o event_data["title"]["supportingText"] >>
            ELSE <<>>)
        \o (IF Len(hs) > 0
            THEN << "Age: " \o (IF "under21" \in DOMAIN hs[1] /\ hs[1]["under21"]
                                THEN "21+ Only" ELSE "All Ages"),
                    "Genre: " \o (IF "minorCategoryText" \in DOMAIN hs[1]
                                  THEN hs[1]["minorCategoryText"]
                                  ELSE "Unknown Genre") >>
            ELSE <<>>)

\* the description lines the code writes
WrittenLines(event_data) ==
    LET hs == Headliners(event_data)
    IN  (IF HasTime(event_data, "doorDateTimeUTC")
         THEN << "Doors: " \o ClockText(Instant(event_data, "doorDateTimeUTC").h,
                                        Instant(event_data, "doorDateTimeUTC").mi)
                 \o " UTC" >>
         ELSE <<>>)
        \o (IF HasTime(event_data, "eventDateTimeUTC")
            THEN << "Show: " \o ClockText(Instant(event_data, "eventDateTimeUTC").h,
                                          Instant(event_data, "eventDateTimeUTC").mi)
                    \o " UTC" >>
            ELSE <<>>)
        \o (IF Len(hs) > 0
            THEN << "Age: " \o (IF "under21" \in DOMAIN hs[1] /\ hs[1]["under21"]
                                THEN "21+ Only" ELSE "All Ages"),
                    "Genre: " \o (IF "minorCategoryText" \in DOMAIN hs[1]
                                  THEN hs[1]["minorCategoryText"]
                                  ELSE "Unknown Genre") >>
            ELSE <<>>)

\* the record of the claim's example: doors 19:00, show 20:00, support "Foo",
\* first headliner under21 = true and genre "Rock"
IsExampleRecord(event_data) ==
    /\ HasTime(event_data, "doorDateTimeUTC")
    /\ Instant(event_data, "doorDateTimeUTC").h = 19
    /\ Instant(event_data, "doorDateTimeUTC").mi = 0
    /\ HasTime(event_data, "eventDateTimeUTC")
    /\ Instant(event_data, "eventDateTimeUTC").h = 20
    /\ Instant(event_data, "eventDateTimeUTC").mi = 0
    /\ "supportingText" \in DOMAIN event_data["title"]
    /\ event_data["title"]["supportingText"] = "Foo"
    /\ Headliners(event_data)
           = << [under21 |-> TRUE, minorCategoryText |-> "Rock"] >>

---------------------------------------------------------------------------
(* C6 *)

\* the instants a trigger n minutes before t can be: the same clock time
\* shifted by n minutes, on t's day or on a day of the month and year
\* before it
TriggerCandidates(t, n) ==
    { [y |-> yy, mo |-> mm, d |-> dd,
       h |-> ((t.h * 60 + t.mi - n) % 1440) \div 60,
       mi |-> (t.mi - n) % 60, s |-> t.s] :
        yy \in {t.y - 1, t.y}, mm \in 1..12, dd \in 1..31 }

\* a is the reminder with this label whose trigger is n minutes before t
IsReminder(a, label, t, n) ==
    /\ a.name = "VALARM"
    /\ a.subcomponents = <<>>
    /\ DOMAIN a.props = {"ACTION", "DESCRIPTION", "TRIGGER;VALUE=DATE-TIME"}
    /\ a.props["ACTION"] = "DISPLAY"
    /\ a.props["DESCRIPTION"] = label
    /\ \E u \in TriggerCandidates(t, n) :
           /\ IsCalendarDate(u)
           /\ MinutesBetween(u, t) = n
           /\ a.props["TRIGGER;VALUE=DATE-TIME"] = StampText(u)

\* the reminders a record derives, checked on the reminders subs
AreDerivedReminders(subs, event_data) ==
    LET door == HasTime(event_data, "doorDateTimeUTC")
        show == HasTime(event_data, "eventDateTimeUTC")
        n == (IF door THEN 1 ELSE 0) + (IF show THEN 1 ELSE 0)
    IN  /\ Len(subs) = n
        /\ door => IsReminder(subs[1], "30 Minutes to Doors",
                              Instant(event_data, "doorDateTimeUTC"), 30)
        /\ show => IsReminder(subs[n], "15 Minutes to Show",
                              Instant(event_data, "eventDateTimeUTC"), 15)

\* C6 Reminder derivation: after the mapper ran on a record, create or
\* update and whatever reminders the event carried, the event's reminders
\* are exactly a "30 Minutes to Doors" reminder triggered 30 minutes before
\* the door instant iff a door timestamp is present, followed by a "15
\* Minutes to Show" reminder triggered 15 minutes before the show instant
\* iff a show timestamp is present: 0 to 2 reminders; doors
\* 2025-01-31T19:00:00Z gives 2025-01-31T18:30:00Z, show
\* 2025-01-31T20:00:00Z gives 2025-01-31T19:45:00Z.
C6_Reminders ==
    Mapped =>
        LET subs == ret.ev.subcomponents
            d == arg.event_data
        IN  /\ AreDerivedReminders(subs, d)
            /\ Len(subs) <= 2
            /\ (HasTime(d, "doorDateTimeUTC")
                /\ d["doorDateTimeUTC"] = T(2025, 1, 31, 19, 0, 0)
                => subs[1].props["TRIGGER;VALUE=DATE-TIME"] = "20250131T183000Z")
            /\ (HasTime(d, "eventDateTimeUTC")
                /\ d["eventDateTimeUTC"] = T(2025, 1, 31, 20, 0, 0)
                => subs[Len(subs)].props["TRIGGER;VALUE=DATE-TIME"]
                       = "20250131T194500Z")

\* update of an event that carried three reminders, with a door time whose
\* reminder falls on the last day of the month before
C6_Witness ==
    /\ Mapped
    /\ arg.ical_event = StaleEvent(UidOf(7))
    /\ HasTime(arg.event_data, "doorDateTimeUTC")
    /\ arg.event_data["doorDateTimeUTC"] = T(2025, 3, 1, 0, 15, 0)
    /\ HasTime(arg.event_data, "eventDateTimeUTC")
    /\ Len(ret.ev.subcomponents) = 2
    /\ ret.ev.subcomponents[1].props["TRIGGER;VALUE=DATE-TIME"]
           = "20250228T234500Z"

---------------------------------------------------------------------------
(* C8 *)

\* C8 All-day span: for every mapped record DTEND is DTSTART plus one day;
\* DTSTART is the calendar date of eventDateTimeUTC whatever its time of day,
\* across month and year ends (2025-01-31 gives 2025-01-31 to 2025-02-01);
\* without a show timestamp the mapper does not fail and writes 2025-01-01
\* to 2025-01-02.
C8_AllDaySpan ==
    call = "returned" =>
        LET d == arg.event_data
            show == Get(d, "eventDateTimeUTC", NoneVal)
            others_parse ==
                /\ Get(d, "doorDateTimeUTC", NoneVal) # BadStr
                /\ Get(d, "modifiedUTC", NoneVal) # BadStr
        IN  /\ (HasMandatory(d) /\ others_parse /\ show \in {NoneVal, EmptyStr}
                => ret.err = "none")
            /\ ret.err = "none" =>
                   LET start == ret.ev.props["DTSTART"]
                       end == ret.ev.props["DTEND"]
                   IN  /\ IsCalendarDate(start)
                       /\ IsCalendarDate(end)
                       /\ DayNumber(end) = DayNumber(start) + 1
                       /\ IF HasTime(d, "eventDateTimeUTC")
                          THEN start = [y |-> show.date[1],
                                        mo |-> show.date[2],
                                        d |-> show.date[3]]
                          ELSE /\ start = [y |-> 2025, mo |-> 1, d |-> 1]
                               /\ end = [y |-> 2025, mo |-> 1, d |-> 2]
                       /\ (start = [y |-> 2025, mo |-> 1, d |-> 31]
                           => end = [y |-> 2025, mo |-> 2, d |-> 1])

\* a show on the last day of a year, late in the evening, updating an event
\* that had another span
C8_Witness ==
    /\ Mapped
    /\ arg.ical_event = StaleEvent(UidOf(7))
    /\ HasTime(arg.event_data, "eventDateTimeUTC")
    /\ arg.event_data["eventDateTimeUTC"] = T(2024, 12, 31, 23, 59, 30)
    /\ ret.ev.props["DTSTART"] = [y |-> 2024, mo |-> 12, d |-> 31]
    /\ ret.ev.props["DTEND"] = [y |-> 2025, mo |-> 1, d |-> 1]

\* the placeholder span of a record without a show timestamp
C8_WitnessPlaceholder ==
    /\ Mapped
    /\ "eventDateTimeUTC" \notin DOMAIN arg.event_data
    /\ ret.ev.props["DTEND"] = [y |-> 2025, mo |-> 1, d |-> 2]

---------------------------------------------------------------------------
(* Vocabulary of the properties of main *)

\* the events of a persisted document
Events(doc) == IF doc = NoFile THEN <<>> ELSE doc.subcomponents

\* "{eventId}@thenationalva.com" for the one-digit identifiers of the feed
UidText(event_id) == DigitText[event_id + 1] \o "@thenationalva.com"

\* the identifiers of the records of a feed
FeedUids(records) ==
    { UidText(records[k]["eventId"]) :
        k \in {j \in 1..Len(records) : "eventId" \in DOMAIN records[j]} }

\* the positions of a list of events that carry identifier uid
Carrying(events, uid) ==
    {k \in 1..Len(events) :
        "UID" \in DOMAIN events[k].props /\ events[k].props["UID"] = uid}

\* no identifier occurs on two events
UniqueUids(events) ==
    \A i, j \in 1..Len(events) :
        events[i].props["UID"] = events[j].props["UID"] => i = j

\* the labels of the reminders of an event
ReminderLabels(e) ==
    { e.subcomponents[k].props["DESCRIPTION"] : k \in 1..Len(e.subcomponents) }

---------------------------------------------------------------------------
(* C1 *)

\* C1 Preservation: after any number of runs, every event that was in the
\* store before a run is still in the store, at its place and under its
\* identifier, and when its identifier does not occur in the run's feed it
\* is unchanged in every attribute and reminder; no run removes an event.
C1_Preservation ==
    LET old == Events(fileAtStart)
        new == Events(file)
    IN  \A k \in 1..Len(old) :
            /\ k <= Len(new)
            /\ new[k].props["UID"] = old[k].props["UID"]
            /\ (pc = "done" /\ old[k].props["UID"] \notin FeedUids(all_events)
                => new[k] = old[k])

\* a later run whose feed changed the store but names neither the event of
\* no feed nor the event an earlier run created
C1_Witness ==
    /\ pc = "done"
    /\ runs >= 2
    /\ file # fileAtStart
    /\ Len(all_events) >= 1
    /\ Len(Events(fileAtStart)) = 3
    /\ \E k \in 1..Len(Events(fileAtStart)) :
           /\ Events(fileAtStart)[k].props["UID"] = UidText(2)
           /\ UidText(2) \notin FeedUids(all_events)
           /\ Events(file)[k] = Events(fileAtStart)[k]
    /\ Events(file)[1] = StaleEvent(UidText(3))

---------------------------------------------------------------------------
(* C2 *)

\* C2 Identifier stability: a record is keyed "{eventId}@thenationalva.com";
\* from a store with unique identifiers, after any sequence of runs, also
\* with a feed that repeats an eventId, each identifier is on at most one
\* event: a record with a known identifier updates that event and adds none.
C2_IdentifierStability ==
    /\ UniqueUids(Events(file))
    /\ cal # NoFile => UniqueUids(cal.subcomponents)
    /\ (cal # NoFile /\ idx > 1) =>
           Cardinality(Carrying(cal.subcomponents,
                                UidText(all_events[idx - 1]["eventId"]))) = 1

\* a feed that names the same new eventId twice, saved as one event
C2_Witness ==
    /\ pc = "done"
    /\ fileAtStart = NoFile
    /\ Len(all_events) = 2
    /\ all_events[1]["eventId"] = all_events[2]["eventId"]
    /\ all_events[1] # all_events[2]
    /\ Len(Events(file)) = 1

---------------------------------------------------------------------------
(* C3 *)

\* C3 Idempotence: a run on the store saved by a run with the same feed
\* saves a store equal to the one it loaded: the same events in the same
\* order with the same attributes and reminders.
C3_Idempotence == (pc = "done" /\ startedFresh) => file = fileAtStart

\* a second run on an unchanged feed of two records, over a store that
\* holds an event with two reminders
C3_Witness ==
    /\ pc = "done"
    /\ startedFresh
    /\ Len(all_events) = 2
    /\ Len(Events(file)) = 3
    /\ \E k \in 1..Len(Events(file)) :
           Len(Events(file)[k].subcomponents) = 2

---------------------------------------------------------------------------
(* C4 *)

\* C4 All-or-nothing write: the document is written once per run and only
\* after every record of the feed was merged; when the fetch fails or a
\* record lacks a mandatory field the run aborts and the document is what it
\* was before the run, also when earlier records were merged in memory.
C4_AllOrNothing ==
    /\ writes <= 1
    /\ pc \in {"fetch", "merge", "aborted"} =>
           file = fileAtStart /\ writes = 0
    /\ pc = "done" =>
           /\ writes = 1
           /\ file = cal
           /\ idx = Len(all_events) + 1
           /\ \A k \in 1..Len(all_events) : HasMandatory(all_events[k])
    /\ (pc = "merge" /\ idx <= Len(all_events)
        /\ ~HasMandatory(all_events[idx])) => ~ENABLED Save

\* a run aborted by its second record after the first was merged in memory
C4_Witness ==
    /\ pc = "aborted"
    /\ idx = 2
    /\ Len(all_events) = 2
    /\ ~HasMandatory(all_events[2])
    /\ cal.subcomponents # Events(fileAtStart)
    /\ file = fileAtStart

\* a run aborted by a failed fetch
C4_WitnessFetch ==
    /\ pc = "aborted"
    /\ all_events = <<>>
    /\ feed # <<>>
    /\ file = fileAtStart

---------------------------------------------------------------------------
(* C7 *)

\* every description without a Doors line: an optional Show line, then an
\* optional pair of Age and Genre lines
DoorlessDescriptions ==
    LET shows == { <<>> } \cup
                 { << "Show: " \o ClockText(h, mi) \o sfx >> :
                     h \in 0..23, mi \in 0..59, sfx \in {"", " UTC"} }
        ages == { <<>> } \cup
                { << "Age: " \o a, "Genre: " \o g >> :
                    a \in {"21+ Only", "All Ages"},
                    g \in {"Rock", "Jazz", "Unknown Genre"} }
    IN  { JoinLines(sh \o ag) : sh \in shows, ag \in ages }

\* C7 Missing optional fields: a record with every mandatory field and no
\* door time is mapped without error, and the run completes and saves; its
\* event has no "Doors:" description line and no doors reminder, also when
\* the event carried a doors reminder before.
C7_MissingDoor ==
    /\ (pc = "aborted" /\ idx <= Len(all_events)) =>
           ~HasMandatory(all_events[idx])
    /\ (pc \in {"merge", "done"} /\ idx > 1
        /\ "doorDateTimeUTC" \notin DOMAIN all_events[idx - 1]) =>
           \A k \in Carrying(cal.subcomponents,
                             UidText(all_events[idx - 1]["eventId"])) :
               /\ cal.subcomponents[k].props["DESCRIPTION"]
                      \in DoorlessDescriptions
               /\ "30 Minutes to Doors"
                      \notin ReminderLabels(cal.subcomponents[k])
    /\ (pc = "merge" /\ idx > Len(all_events)) => ENABLED Save

\* a saved run whose last record has no door time and updated an event that
\* carried a doors reminder
C7_Witness ==
    /\ pc = "done"
    /\ Len(all_events) >= 1
    /\ "doorDateTimeUTC" \notin DOMAIN all_events[Len(all_events)]
    /\ \E k \in 1..Len(Events(fileAtStart)) :
           /\ Events(fileAtStart)[k].props["UID"]
                  = UidText(all_events[Len(all_events)]["eventId"])
           /\ "30 Minutes to Doors" \in ReminderLabels(Events(fileAtStart)[k])
           /\ "30 Minutes to Doors" \notin ReminderLabels(Events(file)[k])
           /\ Events(file)[k].props["DESCRIPTION"] \in DoorlessDescriptions

---------------------------------------------------------------------------
(* C10 *)

\* the properties the mapper writes
OwnedProps ==
    {"UID", "DTSTAMP", "LAST-MODIFIED", "DTSTART", "DTEND", "SUMMARY",
     "LOCATION", "DESCRIPTION", "URL"}

\* the mapper-owned values of an event: those properties and the reminders
Owned(e) ==
    [props |-> [p \in OwnedProps \cap DOMAIN e.props |-> e.props[p]],
     reminders |-> e.subcomponents]

\* one record was merged by this step
MergedOne == pc = "merge" /\ pc' = "merge" /\ idx' = idx + 1

\* C10 Create/update equivalence: merging a record whose identifier is on an
\* event of the store leaves that event, in place, with the identifier,
\* timestamps, span, title, location, description, ticket URL and reminders
\* the mapper gives a created event for that record, and the order of the
\* store unchanged; a record with a new identifier appends the created event
\* at the end of the store.
C10_CreateUpdateEquivalence ==
    [][ MergedOne =>
          LET d == all_events[idx]
              before == cal.subcomponents
              after == cal'.subcomponents
              known == Carrying(before, UidText(d["eventId"]))
              created == create_or_update_ical_event(d, NoEvent).ev
          IN  IF known # {}
              THEN /\ Len(after) = Len(before)
                   /\ \A k \in 1..Len(before) :
                          IF k \in known
                          THEN /\ Owned(after[k]) = Owned(created)
                               /\ DOMAIN after[k].props
                                      = DOMAIN before[k].props \cup OwnedProps
                          ELSE after[k] = before[k]
              ELSE after = Append(before, created)
      ]_vars

\* the first record of a feed updated, in place, an event of an older feed
\* version that had another title and three reminders
C10_Witness ==
    /\ pc = "merge"
    /\ idx = 2
    /\ Events(fileAtStart) = << StaleEvent(UidText(3)), StaleEvent(UidText(1)) >>
    /\ all_events[1]["eventId"] = 1
    /\ Len(cal.subcomponents) = 2
    /\ cal.subcomponents[1] = StaleEvent(UidText(3))
    /\ cal.subcomponents[2].props["SUMMARY"]
           = all_events[1]["title"]["eventTitleText"]
    /\ cal.subcomponents[2].props["X-NOTE"] = "kept"
    /\ Len(cal.subcomponents[2].subcomponents) <= 2

\* a record with a new identifier was appended behind the loaded events
C10_WitnessCreate ==
    /\ pc = "merge"
    /\ idx = 2
    /\ Len(Events(fileAtStart)) = 2
    /\ all_events[1]["eventId"] = 2
    /\ Len(cal.subcomponents) = 3
    /\ cal.subcomponents[3].props["UID"] = UidText(2)

===========================================================================
